---- MODULE Spec2Model ----
(***************************************************************************)
(* The coffee-store HTTP server of src/index.js: an Express application    *)
(* whose data routes forward one store call each to two MongoDB            *)
(* collections ("coffee" and "user"), registered by run() once the         *)
(* connection handshake has completed.                                     *)
(*                                                                         *)
(* A request handler is an async function with one await: the part before  *)
(* the await (identifier parsing, building the store call) is one step,    *)
(* the store applying the call is a step of the store, and the part after  *)
(* the await (res.send) is a third step.  Other requests interleave        *)
(* between the three.                                                      *)
(***************************************************************************)
EXTENDS Integers, Sequences, FiniteSets, TLC

(* ------------------------------ bounds ------------------------------- *)
MaxRequests == 2      \* requests a serving process receives in one behaviour
MaxStartupRequests == 1   \* requests received in a behaviour that starts the process
MaxInFlight == 2      \* handlers suspended at their await at one time

(* ------------------------------ values ------------------------------- *)
\* JSON strings, null, and JavaScript's undefined (a property the body lacks).
Val(n) == <<"s", n>>
Null == <<"null", 0>>
Undefined == <<"undefined", 0>>
\* A 12-byte ObjectId, and the strings a path parameter can hold: the
\* lower-case and an upper-case spelling of an ObjectId's 24 hex digits, and
\* a string that is no ObjectId.
Oid(n) == <<"oid", n>>
HexLower(n) == <<"lo", n>>
HexUpper(n) == <<"up", n>>
Malformed == <<"bad", 0>>
NoId == <<"none", 0>>

NamedFields == {"name", "supplier", "taste", "category", "details", "photo"}
ExtraField == "price"
IdField == "_id"

\* The request bodies clients send: the six fields; the six fields and a
\* seventh; one field only, with an _id of the client's own.
Body(mask, n) == [f \in mask |-> Val(n)]
Latte == Body(NamedFields, 1)
Mocha == Body(NamedFields \cup {ExtraField}, 2)
Partial == Body({"name", IdField}, 3)
Bodies == {Latte, Mocha, Partial}
UserBodies == {Body({"name", "email"}, 1)}
EmptyBody == [f \in {} |-> Null]

\* The ObjectId clients know when the process starts, and the k-th ObjectId
\* the driver generates afterwards (never the former).
PriorId == Oid(0)
GeneratedOid(k) == PriorId[2] + k

(* --------------------------- ObjectId parsing ------------------------ *)
\* new ObjectId(id): hex digits are read case-insensitively.
IsValidObjectId(s) == s[1] \in {"lo", "up"}
ObjectId(s) == Oid(s[2])
\* ObjectId.toJSON / toHexString: lower-case hex.
toHexString(id) == IF id[1] = "oid" THEN HexLower(id[2]) ELSE id

(* ------------------------------ documents ---------------------------- *)
Field(d, f) == IF f \in DOMAIN d THEN d[f] ELSE Undefined
WithId(d, id) == [f \in DOMAIN d \cup {IdField} |-> IF f = IdField THEN id ELSE d[f]]
\* BSON serialisation of a value under the client's options (lines 19-25 set
\* no ignoreUndefined): undefined is written as null.
ToBson(v) == IF v = Undefined THEN Null ELSE v
\* JSON serialisation of a stored document by res.send: an ObjectId becomes
\* its lower-case hex string.
ToJson(d) == [f \in DOMAIN d |-> IF f = IdField THEN toHexString(d[f]) ELSE d[f]]

(* --------------------------- store operations ------------------------ *)
\* A collection is the sequence of its documents in natural order; the store
\* keeps _id unique and applies each call atomically.
Matching(coll, id) == { i \in 1..Len(coll) : coll[i][IdField] = id }
FirstMatch(coll, id) ==
    IF Matching(coll, id) = {} THEN 0
    ELSE CHOOSE i \in Matching(coll, id) : \A j \in Matching(coll, id) : i <= j
RemoveAt(coll, i) == SubSeq(coll, 1, i - 1) \o SubSeq(coll, i + 1, Len(coll))

NoResult == [t |-> "none"]

\* A scan cut off after the first document (find().limit(1)).
FindAllLimited(coll) ==
    [coll |-> coll,
     result |-> [t |-> "docs",
                 docs |-> IF Len(coll) = 0 THEN <<>> ELSE <<coll[1]>>]]

\* collection.find().toArray()
FindAll(coll) == [coll |-> coll, result |-> [t |-> "docs", docs |-> coll]]

\* collection.findOne({_id: id})
FindOne(coll, id) ==
    [coll |-> coll,
     result |-> IF FirstMatch(coll, id) = 0 THEN [t |-> "null"]
                ELSE [t |-> "doc", doc |-> coll[FirstMatch(coll, id)]]]

\* collection.insertOne(doc); doc carries its _id (the body's, or the one the
\* driver generated).  A second document with the same _id is refused.
InsertOne(coll, doc) ==
    IF Matching(coll, doc[IdField]) # {}
    THEN [coll |-> coll, result |-> [t |-> "error", code |-> "E11000"]]
    ELSE [coll |-> Append(coll, doc),
          result |-> [t |-> "insertAck", insertedId |-> doc[IdField]]]

\* A delete whose filter names a field no document has ({id: ...}).
DeleteOneWrongField(coll, id) ==
    [coll |-> coll, result |-> [t |-> "deleteAck", deletedCount |-> 0]]

\* collection.deleteOne({_id: id})
DeleteOne(coll, id) ==
    IF FirstMatch(coll, id) = 0
    THEN [coll |-> coll, result |-> [t |-> "deleteAck", deletedCount |-> 0]]
    ELSE [coll |-> RemoveAt(coll, FirstMatch(coll, id)),
          result |-> [t |-> "deleteAck", deletedCount |-> 1]]

\* $set under ignoreUndefined: a field whose value is undefined is left out of
\* the update.
ApplySetIgnoreUndefined(old, set) ==
    [f \in DOMAIN old \cup { g \in DOMAIN set : set[g] # Undefined } |->
        IF f \in DOMAIN set /\ set[f] # Undefined THEN set[f] ELSE old[f]]

\* The document after {$set: set} has been applied to old.
ApplySet(old, set) ==
    [f \in DOMAIN old \cup DOMAIN set |->
        IF f \in DOMAIN set THEN ToBson(set[f]) ELSE old[f]]

\* updateOne without the upsert option: an update that matches nothing does
\* nothing.
UpdateOneNoUpsert(coll, id, set) ==
    LET i == FirstMatch(coll, id)
        new == ApplySet(coll[i], set)
    IN IF i = 0
       THEN [coll |-> coll,
             result |-> [t |-> "updateAck", matchedCount |-> 0,
                         modifiedCount |-> 0, upsertedCount |-> 0,
                         upsertedId |-> NoId]]
       ELSE [coll |-> [coll EXCEPT ![i] = new],
             result |-> [t |-> "updateAck", matchedCount |-> 1,
                         modifiedCount |-> IF new = coll[i] THEN 0 ELSE 1,
                         upsertedCount |-> 0, upsertedId |-> NoId]]

\* collection.updateOne({_id: id}, {$set: set}, {upsert: true})
UpdateOne(coll, id, set) ==
    LET i == FirstMatch(coll, id)
        new == ApplySet(coll[i], set)
    IN IF i = 0
       THEN [coll |-> Append(coll, ApplySet([f \in {IdField} |-> id], set)),
             result |-> [t |-> "updateAck", matchedCount |-> 0,
                         modifiedCount |-> 0, upsertedCount |-> 1,
                         upsertedId |-> id]]
       ELSE [coll |-> [coll EXCEPT ![i] = new],
             result |-> [t |-> "updateAck", matchedCount |-> 1,
                         modifiedCount |-> IF new = coll[i] THEN 0 ELSE 1,
                         upsertedCount |-> 0, upsertedId |-> NoId]]

\* A $set that passes the seventh field of the body along.
SetOfBody(updateCoffee) ==
    [f \in NamedFields \cup {ExtraField} |-> Field(updateCoffee, f)]

\* The $set document the PUT handler builds from the request body.
SetOf(updateCoffee) == [f \in NamedFields |-> Field(updateCoffee, f)]

(* -------------------------------- state ------------------------------ *)
VARIABLES
    build,      \* what the runtime does with a rejected handler promise
    conn,       \* where run() stands: connecting, pinging, ready, or failed
    routes,     \* whether the data routes are registered on app
    caught,     \* what run().catch(console.dir) has logged
    alive,      \* whether the process runs
    coffee,     \* the coffee collection
    users,      \* the user collection
    nextGen,    \* how many ObjectIds the driver has generated, plus one
    inflight,   \* the handlers suspended at their await, by slot
    quota,      \* requests still to arrive in this behaviour
    lastResp,   \* how the latest request to end ended
    origin,     \* history: generated id -> document inserted under it, untouched since
    deleted     \* history: ids deleted from coffee and not created again since

vars == <<build, conn, routes, caught, alive, coffee, users, nextGen, inflight,
          quota, lastResp, origin, deleted>>

\* An unhandled rejection of an async handler's promise: the process exits
\* (Node 15 and later), it only warns and the request hangs (older Node), or
\* the router forwards it to the default error handler (Express 5).  Which
\* one is fixed by the installation; build holds it from the first rejection
\* on.
Builds == {"exit", "warn", "forward"}

Slots == 1..MaxInFlight
NoSnap == [t |-> "none", doc |-> EmptyBody]
Idle ==
    [kind |-> "idle", path |-> NoId, body |-> EmptyBody,
     id |-> NoId, arg |-> EmptyBody, stage |-> "idle", result |-> NoResult,
     snap |-> NoSnap]
Request(kind, path, body, id, arg) ==
    [kind |-> kind, path |-> path, body |-> body,
     id |-> id, arg |-> arg, stage |-> "issued", result |-> NoResult,
     snap |-> NoSnap]
NoResp ==
    [kind |-> "none", path |-> NoId, status |-> 0, by |-> "nobody",
     body |-> NoResult, connAt |-> "connecting", snap |-> NoSnap]
Response(kind, path, status, by, body, snap) ==
    [kind |-> kind, path |-> path, status |-> status, by |-> by,
     body |-> body, connAt |-> conn, snap |-> snap]

\* The identifiers a client can put in a path: the ones it made up, the ones
\* the driver has generated so far, in either spelling, and a malformed one.
PathStrings ==
    {HexLower(PriorId[2]), HexUpper(PriorId[2]), Malformed}
        \cup { HexLower(GeneratedOid(k)) : k \in 1..(nextGen - 1) }

\* What the store holds when the process starts: nothing, or documents
\* earlier runs left behind.
StoredCoffee == WithId(Body(NamedFields \cup {ExtraField}, 4), PriorId)
StoredOwnId == [f \in {"name", IdField} |-> Val(1)]
StoredUser == WithId(Body({"name", "email"}, 2), PriorId)

\* The store as the process finds it.
InitStore ==
    \/ coffee = <<>> /\ users = <<>>
    \/ coffee = <<StoredCoffee, StoredOwnId>> /\ users = <<StoredUser>>

\* The process has loaded the module: run() awaits the handshake, GET / is
\* registered, the listener is up.
Init ==
    /\ build = "unobserved"
    /\ conn = "connecting"
    /\ routes = FALSE
    /\ caught = "none"
    /\ alive = TRUE
    /\ InitStore
    /\ nextGen = 1
    /\ inflight = [s \in Slots |-> Idle]
    /\ quota = MaxStartupRequests
    /\ lastResp = NoResp
    /\ origin = [n \in {} |-> EmptyBody]
    /\ deleted = {}

(* ------------------------------ startup ------------------------------ *)
\* await client.connect() resolves: run() goes on, registers the eight data
\* routes and sends the ping.
ConnectOk ==
    /\ alive /\ conn = "connecting"
    /\ conn' = "pinging"
    /\ routes' = TRUE
    /\ UNCHANGED <<build, caught, alive, coffee, users, nextGen, inflight, quota,
                   lastResp, origin, deleted>>

\* run() called without .catch: the rejection is unhandled and ends the
\* process.
ConnectFailUnhandled ==
    /\ alive /\ conn = "connecting"
    /\ conn' = "handshakeFailed"
    /\ alive' = FALSE
    /\ UNCHANGED <<build, routes, caught, coffee, users, nextGen, inflight, quota,
                   lastResp, origin, deleted>>

\* await client.connect() rejects: run() has no catch block, its promise
\* rejects, and run().catch(console.dir) logs the error.
ConnectFail ==
    /\ alive /\ conn = "connecting"
    /\ conn' = "handshakeFailed"
    /\ caught' = "handshake"
    /\ UNCHANGED <<build, routes, alive, coffee, users, nextGen, inflight, quota,
                   lastResp, origin, deleted>>

\* The ping resolves: the success line is logged and run() resolves.
PingOk ==
    /\ alive /\ conn = "pinging"
    /\ conn' = "ready"
    /\ UNCHANGED <<build, routes, caught, alive, coffee, users, nextGen,
                   inflight, quota, lastResp, origin, deleted>>

\* The ping rejects: run() rejects and run().catch(console.dir) logs it.
PingFail ==
    /\ alive /\ conn = "pinging"
    /\ conn' = "pingFailed"
    /\ caught' = "ping"
    /\ UNCHANGED <<build, routes, alive, coffee, users, nextGen, inflight, quota,
                   lastResp, origin, deleted>>

(* ------------------------- request dispatch -------------------------- *)
DataKinds ==
    {"GET /addCoffee", "GET /addCoffee/:id", "POST /addCoffee",
     "DELETE /addCoffee/:id", "PUT /addCoffee/:id", "POST /users",
     "GET /users", "DELETE /users/:id"}
ByIdKinds ==
    {"GET /addCoffee/:id", "DELETE /addCoffee/:id", "PUT /addCoffee/:id",
     "DELETE /users/:id"}

AllKinds == DataKinds \cup {"GET /"}

\* Every route registered inside run(), GET / with the others.
RegisteredInRun(kind) == routes
\* Every route registered when the module loads.
RegisteredAtLoad(kind) == TRUE

\* Whether app has a route for the request: GET / is registered when the
\* module loads, the data routes inside run() after the handshake.
Registered(kind) == IF kind = "GET /" THEN TRUE ELSE routes

\* The listener accepts a request while the process runs.
Arrives == alive /\ quota > 0
HasFreeSlot == \E s \in Slots : inflight[s] = Idle
FreeSlot == CHOOSE s \in Slots : inflight[s] = Idle /\ \A t \in Slots : inflight[t] = Idle => s <= t

\* The handler reaches its await: it is suspended until the store answers.
Suspend(r) ==
    /\ HasFreeSlot
    /\ inflight' = [inflight EXCEPT ![FreeSlot] = r]
    /\ UNCHANGED <<build, alive, lastResp>>

\* The handler's promise rejects and nothing handles it.
Rejected(kind, path) ==
    \E b \in Builds :
        /\ build \in {"unobserved", b}
        /\ build' = b
        /\ alive' = (b # "exit")
        /\ lastResp' =
             IF b = "forward"
             THEN Response(kind, path, 500, "framework", [t |-> "threw"], NoSnap)
             ELSE Response(kind, path, 0, "nobody", [t |-> "threw"], NoSnap)

\* A handler that puts req.params.id into the query as it comes.
ByIdUnparsed(kind, path, body, arg) ==
    Suspend(Request(kind, path, body, Oid(path[2]), arg))

\* A handler that parses req.params.id first: new ObjectId(id) throws on a
\* malformed string, before the store call is built.
ById(kind, path, body, arg) ==
    IF IsValidObjectId(path)
    THEN Suspend(Request(kind, path, body, ObjectId(path), arg))
    ELSE Rejected(kind, path) /\ UNCHANGED inflight

\* A request for which no route is registered: no layer of the router matches
\* and Express answers 404 itself.
NoRoute(kind, path) ==
    /\ Arrives
    /\ kind \in AllKinds /\ ~Registered(kind)
    /\ (kind \in ByIdKinds) = (path # NoId)
    /\ quota' = quota - 1
    /\ lastResp' = Response(kind, path, 404, "framework",
                            [t |-> "notFound"], NoSnap)
    /\ UNCHANGED <<build, conn, routes, caught, alive, coffee, users, nextGen,
                   inflight, origin, deleted>>

(* ------------------------------ handlers ----------------------------- *)
\* app.get("/addCoffee")
GetCoffees ==
    /\ Arrives /\ Registered("GET /addCoffee")
    /\ Suspend(Request("GET /addCoffee", NoId, EmptyBody, NoId, EmptyBody))
    /\ quota' = quota - 1
    /\ UNCHANGED <<conn, routes, caught, coffee, users, nextGen, origin,
                   deleted>>

\* app.get("/addCoffee/:id")
GetCoffee(path) ==
    /\ Arrives /\ Registered("GET /addCoffee/:id")
    /\ ById("GET /addCoffee/:id", path, EmptyBody, EmptyBody)
    /\ quota' = quota - 1
    /\ UNCHANGED <<conn, routes, caught, coffee, users, nextGen, origin,
                   deleted>>

\* A handler that keeps the six named fields only, as the PUT handler does.
NewDocumentNamedOnly(body) ==
    WithId([f \in NamedFields \cap DOMAIN body |-> body[f]],
           IF IdField \in DOMAIN body THEN body[IdField]
           ELSE Oid(GeneratedOid(nextGen)))

\* The document insertOne sends to the store: the body as it is, with an _id
\* the driver generates when the body has none.
NewDocument(body) ==
    IF IdField \in DOMAIN body THEN body
    ELSE WithId(body, Oid(GeneratedOid(nextGen)))

\* app.post("/addCoffee")
PostCoffee(body) ==
    /\ Arrives /\ Registered("POST /addCoffee")
    /\ Suspend(Request("POST /addCoffee", NoId, body, NoId, NewDocument(body)))
    /\ nextGen' = IF IdField \in DOMAIN body THEN nextGen ELSE nextGen + 1
    /\ quota' = quota - 1
    /\ UNCHANGED <<conn, routes, caught, coffee, users, origin, deleted>>

\* app.delete("/addCoffee/:id")
DeleteCoffee(path) ==
    /\ Arrives /\ Registered("DELETE /addCoffee/:id")
    /\ ById("DELETE /addCoffee/:id", path, EmptyBody, EmptyBody)
    /\ quota' = quota - 1
    /\ UNCHANGED <<conn, routes, caught, coffee, users, nextGen, origin,
                   deleted>>

\* app.put("/addCoffee/:id")
PutCoffee(path, body) ==
    /\ Arrives /\ Registered("PUT /addCoffee/:id")
    /\ ById("PUT /addCoffee/:id", path, body, SetOf(body))
    /\ quota' = quota - 1
    /\ UNCHANGED <<conn, routes, caught, coffee, users, nextGen, origin,
                   deleted>>

\* app.post("/users")
PostUser(body) ==
    /\ Arrives /\ Registered("POST /users")
    /\ Suspend(Request("POST /users", NoId, body, NoId, NewDocument(body)))
    /\ nextGen' = IF IdField \in DOMAIN body THEN nextGen ELSE nextGen + 1
    /\ quota' = quota - 1
    /\ UNCHANGED <<conn, routes, caught, coffee, users, origin, deleted>>

\* app.get("/users")
GetUsers ==
    /\ Arrives /\ Registered("GET /users")
    /\ Suspend(Request("GET /users", NoId, EmptyBody, NoId, EmptyBody))
    /\ quota' = quota - 1
    /\ UNCHANGED <<conn, routes, caught, coffee, users, nextGen, origin,
                   deleted>>

\* app.delete("/users/:id")
DeleteUser(path) ==
    /\ Arrives /\ Registered("DELETE /users/:id")
    /\ ById("DELETE /users/:id", path, EmptyBody, EmptyBody)
    /\ quota' = quota - 1
    /\ UNCHANGED <<conn, routes, caught, coffee, users, nextGen, origin,
                   deleted>>

\* app.get("/"): registered when the module loads, answers at once.
RootText == "coffee server is running"
GetRoot ==
    /\ Arrives /\ Registered("GET /")
    /\ quota' = quota - 1
    /\ lastResp' = Response("GET /", NoId, 200, "handler",
                            [t |-> "text", text |-> RootText], NoSnap)
    /\ UNCHANGED <<build, conn, routes, caught, alive, coffee, users, nextGen,
                   inflight, origin, deleted>>

(* ------------------------------- store ------------------------------- *)
\* What the store does with a suspended handler's call.
Exec(r) ==
    CASE r.kind = "GET /addCoffee" ->
           [coffee |-> coffee, users |-> users, result |-> FindAll(coffee).result]
      [] r.kind = "GET /addCoffee/:id" ->
           [coffee |-> coffee, users |-> users, result |-> FindOne(coffee, r.id).result]
      [] r.kind = "POST /addCoffee" ->
           [coffee |-> InsertOne(coffee, r.arg).coll, users |-> users,
            result |-> InsertOne(coffee, r.arg).result]
      [] r.kind = "DELETE /addCoffee/:id" ->
           [coffee |-> DeleteOne(coffee, r.id).coll, users |-> users,
            result |-> DeleteOne(coffee, r.id).result]
      [] r.kind = "PUT /addCoffee/:id" ->
           [coffee |-> UpdateOne(coffee, r.id, r.arg).coll, users |-> users,
            result |-> UpdateOne(coffee, r.id, r.arg).result]
      [] r.kind = "POST /users" ->
           [coffee |-> coffee, users |-> InsertOne(users, r.arg).coll,
            result |-> InsertOne(users, r.arg).result]
      [] r.kind = "GET /users" ->
           [coffee |-> coffee, users |-> users, result |-> FindAll(users).result]
      [] r.kind = "DELETE /users/:id" ->
           [coffee |-> coffee, users |-> DeleteOne(users, r.id).coll,
            result |-> DeleteOne(users, r.id).result]

\* History: what is known of the identifier a GET /addCoffee/:id looks up, at
\* the moment the store looks it up.
Snapshot(r) ==
    IF r.kind # "GET /addCoffee/:id" THEN NoSnap
    ELSE IF r.id[2] \in DOMAIN origin THEN [t |-> "origin", doc |-> origin[r.id[2]]]
    ELSE IF r.id \in deleted THEN [t |-> "deleted", doc |-> EmptyBody]
    ELSE NoSnap

Without(f, n) == [x \in DOMAIN f \ {n} |-> f[x]]
With(f, n, d) == [x \in DOMAIN f \cup {n} |-> IF x = n THEN d ELSE f[x]]

\* The store applies the call of the handler in slot s, atomically.
StoreStep(s) ==
    LET r == inflight[s]
        out == Exec(r)
    IN /\ r.stage = "issued"
       /\ coffee' = out.coffee
       /\ users' = out.users
       /\ inflight' = [inflight EXCEPT ![s] =
              [r EXCEPT !.stage = "applied", !.result = out.result,
                        !.snap = Snapshot(r)]]
       /\ origin' =
            CASE r.kind = "POST /addCoffee" /\ out.result.t = "insertAck"
                   /\ IdField \notin DOMAIN r.body ->
                   With(origin, r.arg[IdField][2], r.body)
              [] r.kind \in {"DELETE /addCoffee/:id", "PUT /addCoffee/:id"} ->
                   Without(origin, r.id[2])
              [] OTHER -> origin
       /\ deleted' =
            CASE r.kind = "DELETE /addCoffee/:id" /\ out.result.deletedCount = 1 ->
                   deleted \cup {r.id}
              [] r.kind = "PUT /addCoffee/:id" -> deleted \ {r.id}
              [] OTHER -> deleted
       /\ UNCHANGED <<build, conn, routes, caught, alive, nextGen, quota, lastResp>>

\* res.send(result): the JSON the client receives.  res.send(null) sends an
\* empty body.
Send(result) ==
    CASE result.t = "docs" ->
           [t |-> "docs", docs |-> [i \in 1..Len(result.docs) |-> ToJson(result.docs[i])]]
      [] result.t = "doc" -> [t |-> "doc", doc |-> ToJson(result.doc)]
      [] result.t = "null" -> [t |-> "empty"]
      [] result.t = "insertAck" ->
           [t |-> "insertAck", insertedId |-> toHexString(result.insertedId)]
      [] result.t = "updateAck" ->
           [result EXCEPT !.upsertedId = toHexString(result.upsertedId)]
      [] OTHER -> result

\* The await of the handler in slot s completes: it sends the result, or, the
\* store call having failed, its promise rejects.
Resume(s) ==
    LET r == inflight[s]
    IN /\ alive
       /\ r.stage = "applied"
       /\ inflight' = [inflight EXCEPT ![s] = Idle]
       /\ IF r.result.t = "error"
          THEN Rejected(r.kind, r.path)
          ELSE /\ lastResp' = Response(r.kind, r.path, 200, "handler",
                                       Send(r.result), r.snap)
               /\ UNCHANGED <<build, alive>>
       /\ UNCHANGED <<conn, routes, caught, coffee, users, nextGen, quota,
                      origin, deleted>>

(* --------------------------- specification --------------------------- *)
Next ==
    \/ ConnectOk
    \/ ConnectFail
    \/ PingOk
    \/ PingFail
    \/ \E k \in AllKinds, p \in PathStrings \cup {NoId} : NoRoute(k, p)
    \/ GetCoffees
    \/ \E p \in PathStrings : GetCoffee(p)
    \/ \E b \in Bodies : PostCoffee(b)
    \/ \E p \in PathStrings : DeleteCoffee(p)
    \/ \E p \in PathStrings, b \in Bodies : PutCoffee(p, b)
    \/ \E b \in UserBodies : PostUser(b)
    \/ GetUsers
    \/ \E p \in PathStrings : DeleteUser(p)
    \/ GetRoot
    \/ \E s \in Slots : StoreStep(s)
    \/ \E s \in Slots : Resume(s)

Spec == Init /\ [][Next]_vars

\* The process once run() has completed: the handshake and the ping have
\* succeeded and the data routes are registered.
InitServing ==
    /\ build = "unobserved"
    /\ conn = "ready"
    /\ routes = TRUE
    /\ caught = "none"
    /\ alive = TRUE
    /\ InitStore
    /\ nextGen = 1
    /\ inflight = [s \in Slots |-> Idle]
    /\ quota = MaxRequests
    /\ lastResp = NoResp
    /\ origin = [n \in {} |-> EmptyBody]
    /\ deleted = {}

NextServing ==
    \/ GetCoffees
    \/ \E p \in PathStrings : GetCoffee(p)
    \/ \E b \in Bodies : PostCoffee(b)
    \/ \E p \in PathStrings : DeleteCoffee(p)
    \/ \E p \in PathStrings, b \in Bodies : PutCoffee(p, b)
    \/ \E b \in UserBodies : PostUser(b)
    \/ GetUsers
    \/ \E p \in PathStrings : DeleteUser(p)
    \/ GetRoot
    \/ \E s \in Slots : StoreStep(s)
    \/ \E s \in Slots : Resume(s)

Serving == InitServing /\ [][NextServing]_vars

(* ============================== claims ============================== *)
\* The store applies the call of slot s in this step; slot s resumes in it.
Applies(s) == inflight[s].stage = "issued" /\ inflight'[s].stage = "applied"
Resumes(s) == inflight[s].stage = "applied" /\ inflight'[s] = Idle
Record(coll, id) == coll[FirstMatch(coll, id)]

\* C1: a GET /addCoffee/i that the store serves after it has inserted body D
\* under the generated identifier i, with no delete or update of i applied in
\* between, answers 200 with exactly D plus _id = i: no field added, dropped
\* or changed.
C1_InsertThenGet ==
    (lastResp.kind = "GET /addCoffee/:id" /\ lastResp.snap.t = "origin") =>
        /\ lastResp.status = 200
        /\ lastResp.by = "handler"
        /\ lastResp.body.t = "doc"
        /\ DOMAIN lastResp.body.doc = DOMAIN lastResp.snap.doc \cup {IdField}
        /\ \A f \in DOMAIN lastResp.snap.doc :
               lastResp.body.doc[f] = lastResp.snap.doc[f]
        /\ lastResp.body.doc[IdField] = lastResp.path

\* C1 witness: the seven-field body was inserted and read back by its
\* generated identifier.
C1_Witness ==
    /\ lastResp.kind = "GET /addCoffee/:id"
    /\ lastResp.snap.t = "origin"
    /\ lastResp.snap.doc = Mocha
    /\ lastResp.body.t = "doc"
    /\ lastResp.path = HexLower(GeneratedOid(1))

\* C2 as stated: a PUT to an identifier the collection lacks adds exactly one
\* record, with that identifier, whose six named fields equal the body's.
C2_UpsertEqualsBody ==
    [][\A s \in Slots :
         (/\ Applies(s)
          /\ inflight[s].kind = "PUT /addCoffee/:id"
          /\ Matching(coffee, inflight[s].id) = {}) =>
            /\ Len(coffee') = Len(coffee) + 1
            /\ Cardinality(Matching(coffee', inflight[s].id)) = 1
            /\ \A f \in NamedFields :
                 Field(Record(coffee', inflight[s].id), f) = Field(inflight[s].body, f)]_vars

\* C2 amended: a PUT to an identifier the collection lacks adds exactly one
\* record, with that identifier, whose six named fields equal the body's where
\* the body has the field and are null where it has not.
C2_UpsertStoresBody ==
    [][\A s \in Slots :
         (/\ Applies(s)
          /\ inflight[s].kind = "PUT /addCoffee/:id"
          /\ Matching(coffee, inflight[s].id) = {}) =>
            /\ Len(coffee') = Len(coffee) + 1
            /\ Cardinality(Matching(coffee', inflight[s].id)) = 1
            /\ \A f \in NamedFields :
                 /\ f \in DOMAIN Record(coffee', inflight[s].id)
                 /\ Record(coffee', inflight[s].id)[f] =
                      IF f \in DOMAIN inflight[s].body THEN inflight[s].body[f] ELSE Null]_vars

\* C2 witness: a PUT with the one-field body has created the record.
C2_Witness ==
    \E s \in Slots :
        /\ inflight[s].kind = "PUT /addCoffee/:id"
        /\ inflight[s].stage = "applied"
        /\ inflight[s].body = Partial
        /\ inflight[s].result.upsertedCount = 1
        /\ Cardinality(Matching(coffee, inflight[s].id)) = 1

\* C3: a DELETE /addCoffee/id of a present id removes that one record and no
\* other, in neither collection; and a GET /addCoffee/id the store serves
\* afterwards, with no upsert of id applied in between, answers with an empty
\* body.
C3_DeleteThenGet ==
    [][/\ \A s \in Slots :
            (/\ Applies(s)
             /\ inflight[s].kind = "DELETE /addCoffee/:id"
             /\ Matching(coffee, inflight[s].id) # {}) =>
               /\ \E i \in 1..Len(coffee) :
                    /\ coffee[i][IdField] = inflight[s].id
                    /\ coffee' = [j \in 1..(Len(coffee) - 1) |->
                                    IF j < i THEN coffee[j] ELSE coffee[j + 1]]
               /\ Matching(coffee', inflight[s].id) = {}
               /\ users' = users
               /\ inflight'[s].result = [t |-> "deleteAck", deletedCount |-> 1]
       /\ (lastResp'.kind = "GET /addCoffee/:id" /\ lastResp'.snap.t = "deleted") =>
               /\ lastResp'.status = 200
               /\ lastResp'.body = [t |-> "empty"]]_vars

\* C3 witness: the stored record was deleted and then looked up.
C3_Witness ==
    /\ lastResp.kind = "GET /addCoffee/:id"
    /\ lastResp.snap.t = "deleted"
    /\ lastResp.body.t = "empty"
    /\ Len(coffee) = 1

\* C4: the scan of GET /addCoffee and of GET /users returns every document the
\* collection holds when the store runs it, and the response carries that
\* array whole.
C4_ScanIsWhole ==
    [][\A s \in Slots :
         /\ (Applies(s) /\ inflight[s].kind = "GET /addCoffee") =>
                /\ inflight'[s].result.t = "docs"
                /\ Len(inflight'[s].result.docs) = Len(coffee)
                /\ coffee' = coffee
         /\ (Applies(s) /\ inflight[s].kind = "GET /users") =>
                /\ inflight'[s].result.t = "docs"
                /\ Len(inflight'[s].result.docs) = Len(users)
                /\ users' = users
         /\ (Resumes(s) /\ inflight[s].kind \in {"GET /addCoffee", "GET /users"}) =>
                /\ lastResp'.kind = inflight[s].kind
                /\ lastResp'.status = 200
                /\ lastResp'.body.t = "docs"
                /\ Len(lastResp'.body.docs) = Len(inflight[s].result.docs)]_vars

\* C4 witness: a scan answered with the two stored documents and a third
\* inserted since.
C4_Witness ==
    /\ lastResp.kind = "GET /addCoffee"
    /\ lastResp.body.t = "docs"
    /\ Len(lastResp.body.docs) = 3
    /\ Len(coffee) = 3

\* C5: whatever the state of the connection, a GET / is answered by its
\* handler with status 200 and the text "coffee server is running".
C5_RootAlwaysAnswers ==
    /\ lastResp.kind = "GET /" =>
          /\ lastResp.status = 200
          /\ lastResp.by = "handler"
          /\ lastResp.body = [t |-> "text", text |-> "coffee server is running"]
    /\ (alive /\ quota > 0) => ENABLED GetRoot

\* C5 witness: GET / answered after the ping has failed.
C5_Witness ==
    /\ lastResp.kind = "GET /"
    /\ lastResp.status = 200
    /\ lastResp.connAt = "pingFailed"
    /\ conn = "pingFailed"

\* C6: a PUT /addCoffee/:id changes nothing but the six named fields of the
\* record it addresses: a seventh field or an _id in the body is not stored,
\* the other fields of the record stay as they were, no other coffee record
\* and no user record changes.
C6_PutFrame ==
    [][\A s \in Slots :
         (Applies(s) /\ inflight[s].kind = "PUT /addCoffee/:id") =>
            LET id == inflight[s].id
                had == Matching(coffee, id) # {}
                old == Record(coffee, id)
                new == Record(coffee', id)
            IN /\ users' = users
               /\ Len(coffee') = Len(coffee) + (IF had THEN 0 ELSE 1)
               /\ \A k \in 1..Len(coffee) :
                     coffee[k][IdField] # id => coffee'[k] = coffee[k]
               /\ Cardinality(Matching(coffee', id)) = 1
               /\ new[IdField] = id
               /\ DOMAIN new =
                     (IF had THEN DOMAIN old ELSE {}) \cup NamedFields \cup {IdField}
               /\ \A f \in DOMAIN new \ NamedFields :
                     had => new[f] = old[f]]_vars

\* C6 witness: a PUT with the seven-field body has updated the stored record,
\* whose seventh field still has its old value.
C6_Witness ==
    \E s \in Slots :
        /\ inflight[s].kind = "PUT /addCoffee/:id"
        /\ inflight[s].stage = "applied"
        /\ inflight[s].body = Mocha
        /\ inflight[s].result.matchedCount = 1
        /\ Matching(coffee, inflight[s].id) # {}
        /\ Record(coffee, inflight[s].id)[ExtraField] = StoredCoffee[ExtraField]
        /\ Record(coffee, inflight[s].id)["name"] = Mocha["name"]
        /\ Len(coffee) = 2

\* Two PUTs to one identifier are in flight together, the store has applied
\* the one in slot t and applies the one in slot s in this step.
SecondOfTwoPuts(s, t) ==
    /\ s # t
    /\ inflight[s].kind = "PUT /addCoffee/:id"
    /\ inflight[t].kind = "PUT /addCoffee/:id"
    /\ inflight[s].id = inflight[t].id
    /\ inflight[t].stage = "applied"
    /\ Applies(s)

\* C7 as stated: once the store has applied both of two concurrent PUTs to one
\* identifier, there is exactly one record with it and its six named fields
\* equal the six fields of the body applied last.
C7_LastWriteEqualsBody ==
    [][\A s, t \in Slots :
         SecondOfTwoPuts(s, t) =>
            /\ Cardinality(Matching(coffee', inflight[s].id)) = 1
            /\ \A f \in NamedFields :
                 Field(Record(coffee', inflight[s].id), f) = Field(inflight[s].body, f)]_vars

\* C7 amended: once the store has applied both of two concurrent PUTs to one
\* identifier, there is exactly one record with it and each of its six named
\* fields is the field of the body applied last, or null where that body
\* lacks the field: all six come from that one body, none from the other.
C7_LastWriteWins ==
    [][\A s, t \in Slots :
         SecondOfTwoPuts(s, t) =>
            /\ Cardinality(Matching(coffee', inflight[s].id)) = 1
            /\ \A f \in NamedFields :
                 /\ f \in DOMAIN Record(coffee', inflight[s].id)
                 /\ Record(coffee', inflight[s].id)[f] =
                      IF f \in DOMAIN inflight[s].body THEN inflight[s].body[f] ELSE Null]_vars

\* C7 witness: two PUTs with different bodies, to an identifier the collection
\* lacked and spelled in two ways, have both been applied; the first created
\* the record, the second, the one-field body, overwrote it.
C7_Witness ==
    \E s, t \in Slots :
        /\ s # t
        /\ inflight[s].kind = "PUT /addCoffee/:id" /\ inflight[s].stage = "applied"
        /\ inflight[t].kind = "PUT /addCoffee/:id" /\ inflight[t].stage = "applied"
        /\ inflight[s].id = inflight[t].id
        /\ inflight[s].path # inflight[t].path
        /\ inflight[t].body = Latte /\ inflight[t].result.upsertedCount = 1
        /\ inflight[s].body = Partial /\ inflight[s].result.matchedCount = 1
        /\ Cardinality(Matching(coffee, inflight[s].id)) = 1
        /\ Record(coffee, inflight[s].id)["name"] = Partial["name"]
        /\ Record(coffee, inflight[s].id)["taste"] = Null

\* C8: a by-id request with a malformed identifier never reaches the store: no
\* handler is suspended on a store call for it, the step that ends it changes
\* neither collection, and what answers it, if anything does, is not the
\* handler.
C8_MalformedIdThrows ==
    [][/\ \A s \in Slots : inflight'[s].path # Malformed
       /\ (lastResp' # lastResp /\ lastResp'.path = Malformed) =>
             /\ lastResp'.kind \in ByIdKinds
             /\ lastResp'.body = [t |-> "threw"]
             /\ lastResp'.by # "handler"
             /\ lastResp'.status # 200
             /\ UNCHANGED <<coffee, users, inflight, nextGen>>]_vars

\* C8 witness: a DELETE /users/:id with a malformed identifier has thrown, the
\* stored user is still there.
C8_Witness ==
    /\ lastResp.kind = "DELETE /users/:id"
    /\ lastResp.path = Malformed
    /\ lastResp.body.t = "threw"
    /\ users = <<StoredUser>>

\* C9 as stated: a failed handshake is not caught and the process does not go
\* on serving requests, while a failed ping is caught and leaves it running.
C9_HandshakeFailureFatal ==
    /\ conn = "handshakeFailed" => (caught = "none" /\ ~alive)
    /\ conn = "pingFailed" => caught = "ping"

\* C9 amended: a failed handshake is caught and logged by run().catch like a
\* failed ping: the process keeps running and keeps answering GET /, with no
\* data route registered; after a failed ping the data routes stay registered
\* and the process runs on until a handler's rejection ends it.
C9_StartupFailuresCaught ==
    /\ conn = "handshakeFailed" =>
          /\ caught = "handshake"
          /\ alive
          /\ ~routes
          /\ quota > 0 => ENABLED GetRoot
          /\ lastResp.kind \in DataKinds => lastResp.status = 404
    /\ conn = "pingFailed" =>
          /\ caught = "ping"
          /\ routes
          /\ ~alive => (build = "exit" /\ lastResp.body = [t |-> "threw"])

\* C9 witness: GET / answered after the handshake has failed.
C9_Witness ==
    /\ conn = "handshakeFailed"
    /\ caught = "handshake"
    /\ lastResp.kind = "GET /"
    /\ lastResp.status = 200
    /\ lastResp.connAt = "handshakeFailed"

\* C10: the data routes are registered exactly from the moment the handshake
\* has succeeded and stay registered, a failed ping included; a data request
\* that arrives while they are not registered is answered 404 by the framework
\* and reaches neither a handler nor the store.
C10_RoutesAfterHandshake ==
    [][/\ routes' <=> conn' \in {"pinging", "ready", "pingFailed"}
       /\ routes => routes'
       /\ (quota' = quota - 1 /\ ~routes) =>
             /\ UNCHANGED <<coffee, users, inflight, nextGen>>
             /\ lastResp'.kind \in DataKinds =>
                   (lastResp'.status = 404 /\ lastResp'.by = "framework")
       /\ (quota' = quota - 1 /\ routes /\ inflight' = inflight) =>
             lastResp'.status # 404]_vars

\* C10 witness: a data request was answered 404 while the handshake was
\* pending.
C10_Witness ==
    /\ lastResp.kind = "POST /addCoffee"
    /\ lastResp.status = 404
    /\ lastResp.connAt = "connecting"
    /\ \A s \in Slots : inflight[s] = Idle

====
